---------------------------- MODULE Spec2Model ----------------------------
(***************************************************************************)
(* Resource accounting of slurm_web (src/app.py): the health filter, the   *)
(* usage aggregation, the clamped subtraction, the grouping by type, the   *)
(* capability ranking and the leaderboard.                                 *)
(*                                                                         *)
(* One behaviour is one request: fn names the handler that runs             *)
(* (parse_cpu_usage_to_table, parse_usage_to_table or parse_leaderboard),  *)
(* Init draws the three feeds (inventory, health, allocation rows) and pc  *)
(* is the handler's position.  A handler that raises ends at pc = "raised" *)
(* with the exception's name in err.                                       *)
(*                                                                         *)
(* Python dicts keep insertion order, and the code's loops and sorts read  *)
(* that order, so every dict is a sequence here:                           *)
(*   inventory  <<[node, slots: <<[type, count]>>]>>                       *)
(*   usage      <<[user, type, node, n]>>, flattened in the order of the   *)
(*              triple loop "for user / for type / for node"               *)
(* CAPABILITY's ranks are held times ten (8.6 -> 86) to stay in integers.  *)
(*                                                                         *)
(* slurm_gpustat is imported, not part of src/app.py: gpu_usage follows    *)
(* section 4.2 of the specification on typed allocation records, and       *)
(* resource_by_type is the grouping loop that parse_cpu_usage_to_table     *)
(* spells out.  Counts of the feeds are non-negative, as the scheduler     *)
(* reports them.  Left out: the HTML text, the bash_gpu sub-count (summed  *)
(* like n_gpu and read by no other step) and the cpu/mem bars drawn from   *)
(* avail_stats_for_node; parse_cpu_usage_to_table is followed up to its    *)
(* two by-type views, after which it only renders those bars.              *)
(***************************************************************************)
EXTENDS Integers, Sequences, FiniteSets, TLC

VARIABLES fn, pc, err, node_str, show_bar, resources, states, rows,
          res, res_total, usage, idx,
          res_total_by_type, res_usage_by_type, type_list,
          total_count, avail_count, aggregates, board

vars == <<fn, pc, err, node_str, show_bar, resources, states, rows,
          res, res_total, usage, idx,
          res_total_by_type, res_usage_by_type, type_list,
          total_count, avail_count, aggregates, board>>

-----------------------------------------------------------------------------
(* Bounds of the model. *)

\* rows of the allocation feed in one request
MaxRows == 2
\* largest slot count of a GPU inventory entry
MaxSlot == 2
\* resource types in one ranked list
MaxTypes == 4
\* largest per-user allocation drawn for the ranking of users
MaxAlloc == 2

-----------------------------------------------------------------------------
(* Generic helpers. *)

Max(a, b) == IF a >= b THEN a ELSE b

Min(a, b) == IF a <= b THEN a ELSE b

Range(s) == {s[k] : k \in 1..Len(s)}

\* sequences over S of length at most n
SeqsUpTo(S, n) == UNION {[1..k -> S] : k \in 0..n}

\* sequences over S of length at most n without a repeated element
DistinctSeqs(S, n) ==
    {s \in SeqsUpTo(S, n) : \A a, b \in 1..Len(s) : a # b => s[a] # s[b]}

RECURSIVE SumN(_)
\* sum of the n fields of a sequence of usage entries
SumN(s) == IF s = <<>> THEN 0 ELSE s[1].n + SumN(Tail(s))

RECURSIVE SumCount(_)
\* sum of the count fields of a sequence of slots
SumCount(s) == IF s = <<>> THEN 0 ELSE s[1].count + SumCount(Tail(s))

RECURSIVE SelectSeq2(_, _)
\* the entries of s at the indexes of the set K, in the order of s
SelectSeq2(s, K) ==
    IF s = <<>> THEN <<>>
    ELSE LET rest == SelectSeq2(Tail(s), {k - 1 : k \in K \ {1}})
         IN  IF 1 \in K THEN <<s[1]>> \o rest ELSE rest

InsertAt(s, k, e) == SubSeq(s, 1, k) \o <<e>> \o SubSeq(s, k + 1, Len(s))

-----------------------------------------------------------------------------
(* Configuration data and the imported constants. *)

\* CAPABILITY, times ten
CAPABILITY ==
    [t \in {"a100", "a40", "a30", "a10", "a16", "v100", "gv100gl",
            "p40", "m40", "rtx6k", "rtx8k"} |->
        CASE t \in {"a40", "a10", "a16"} -> 86
          [] t \in {"a100", "a30"}       -> 80
          [] t \in {"rtx6k", "rtx8k"}    -> 75
          [] t \in {"v100", "gv100gl"}   -> 70
          [] t = "p40"                   -> 61
          [] t = "m40"                   -> 52]

\* the default of CAPABILITY.get(x, 10.0), times ten
DefaultRank == 100

\* key=lambda x: CAPABILITY.get(x, 10.0)
CapabilityKey(t) == IF t \in DOMAIN CAPABILITY THEN CAPABILITY[t] ELSE DefaultRank

\* slurm_gpustat.INACCESSIBLE: the health tokens that exclude a node
INACCESSIBLE == {"drain*", "down*", "drng*", "drain", "down"}

\* a bug to compare against: a node missing from the feed counts as usable
MissingStateIdle == "idle"

\* the default of states.get(key, "down")
MissingState == "down"

-----------------------------------------------------------------------------
(* The health filter.  states is a function from the nodes the health feed *)
(* names to their tokens.                                                  *)

StateOf(st, node) == IF node \in DOMAIN st THEN st[node] ELSE MissingState

\* a bug to compare against: the total view copies the unfiltered inventory
HealthFilterNone(inv, st) == inv

\* {key: val for key, val in resources.items()
\*  if states.get(key, "down") not in INACCESSIBLE}
HealthFilter(inv, st) ==
    SelectSeq2(inv, {k \in 1..Len(inv) : StateOf(st, inv[k].node) \notin INACCESSIBLE})

NodesOf(inv) == {inv[k].node : k \in 1..Len(inv)}

NodeIndex(inv, node) == CHOOSE k \in 1..Len(inv) : inv[k].node = node

SlotTypes(slots) == {slots[k].type : k \in 1..Len(slots)}

\* a bug to compare against: the node's first slot, whatever its type
SlotIndexFirst(slots, t) == 1

\* [x["type"] for x in slots].index(t): the first slot of type t
SlotIndex(slots, t) ==
    CHOOSE k \in 1..Len(slots) :
        slots[k].type = t /\ \A j \in 1..(k - 1) : slots[j].type # t

\* the count of node's slot of type t, 0 when the inventory has no such slot
CountOf(inv, node, t) ==
    LET at == {k \in 1..Len(inv) : inv[k].node = node}
    IN  IF at = {} THEN 0
        ELSE LET slots == inv[CHOOSE k \in at : TRUE].slots
                 of == {j \in 1..Len(slots) : slots[j].type = t}
             IN  IF of = {} THEN 0 ELSE slots[CHOOSE j \in of : TRUE].count

-----------------------------------------------------------------------------
(* The usage mapping user -> type -> node -> count, flattened.             *)

UsageIndexes(us, u, t, node) ==
    {k \in 1..Len(us) : us[k].user = u /\ us[k].type = t /\ us[k].node = node}

\* usage[u][t][node]['n_...'], 0 when there is no such entry
UsageOf(us, u, t, node) ==
    IF UsageIndexes(us, u, t, node) = {} THEN 0
    ELSE us[CHOOSE k \in UsageIndexes(us, u, t, node) : TRUE].n

\* where a new entry of (u, t) goes: after the last entry of u's type t, or
\* after u's last entry when t is new to u, or at the end when u is new
InsertPoint(us, u, t) ==
    LET sameType == {k \in 1..Len(us) : us[k].user = u /\ us[k].type = t}
        sameUser == {k \in 1..Len(us) : us[k].user = u}
        last(K)  == CHOOSE k \in K : \A j \in K : j <= k
    IN  IF sameType # {} THEN last(sameType)
        ELSE IF sameUser # {} THEN last(sameUser)
        ELSE Len(us)

\* a bug to compare against: a later row replaces the count
AddUsageOverwrite(us, u, t, node, n) ==
    IF UsageIndexes(us, u, t, node) # {}
    THEN LET k == CHOOSE j \in UsageIndexes(us, u, t, node) : TRUE
         IN  [us EXCEPT ![k].n = n]
    ELSE InsertAt(us, InsertPoint(us, u, t), [user |-> u, type |-> t, node |-> node, n |-> n])

\* usage[user][type][node]['n_...'] += n, the entry made at 0 when missing
AddUsage(us, u, t, node, n) ==
    IF UsageIndexes(us, u, t, node) # {}
    THEN LET k == CHOOSE j \in UsageIndexes(us, u, t, node) : TRUE
         IN  [us EXCEPT ![k].n = @ + n]
    ELSE InsertAt(us, InsertPoint(us, u, t), [user |-> u, type |-> t, node |-> node, n |-> n])

-----------------------------------------------------------------------------
(* The feeds of the CPU partition.                                          *)

\* what parse_node_names makes of the node-list tokens of the feeds
parse_node_names(s) ==
    CASE s = "cnode01"         -> <<"cnode01">>
      [] s = "cnode02"         -> <<"cnode02">>
      [] s = "cnode09"         -> <<"cnode09">>
      [] s = "cnode0[1-2]"     -> <<"cnode01", "cnode02">>
      [] s = "cnode01,gpu7"    -> <<"cnode01", "gpu7">>
      [] OTHER                 -> <<>>

\* the answers of sinfo -o '%1000N': the partition's node list
CpuSinfo == {"cnode01", "cnode0[1-2]", "cnode01,gpu7"}

\* health tokens of the feed: a usable one, an inaccessible one and one that
\* slurm_gpustat.INACCESSIBLE does not list
HealthTokens == {"idle", "down", "resv"}

\* the health feeds over a set of nodes: any node may be missing
HealthFeeds(nodes) == UNION {[S -> HealthTokens] : S \in SUBSET nodes}

\* int(text) of the count tokens of the feed; a token outside it is not a number
IntOf == [s \in {"1", "2"} |-> IF s = "1" THEN 1 ELSE 2]

\* rows of squeue -O NumNodes,nodelist,username,jobid after row.split():
\* a pending row (no node list), rows of one and of two nodes, a row on a node
\* the inventory does not have, a row of five tokens and a row whose count is
\* not a number
CpuRows ==
    { <<"1", "alice", "100">>,
      <<"1", "cnode01", "alice", "101">>,
      <<"2", "cnode01", "bob", "102">>,
      <<"2", "cnode0[1-2]", "alice", "103">>,
      <<"1", "cnode02", "bob", "104">>,
      <<"2", "cnode09", "bob", "105">>,
      <<"1", "cnode01", "bob", "106", "extra">>,
      <<"n/a", "cnode01", "alice", "107">> }

\* k[0:6] + 'xx'
CpuType(k) == SubSeq(k, 1, Min(6, Len(k))) \o "xx"

\* {k: {'type': k[0:6]+'xx', 'count': 1} for k in node_names}
CpuResources(names) ==
    [k \in 1..Len(names) |->
        [node |-> names[k], slots |-> <<[type |-> CpuType(names[k]), count |-> 1]>>]]

-----------------------------------------------------------------------------
(* cpu_usage: the loop over the rows, one row a step.                       *)

RECURSIVE CpuAddNodes(_, _, _, _, _)
\* for node_name in node_names: skip a node the inventory lacks, else add
CpuAddNodes(us, inv, names, user, n) ==
    IF names = <<>> THEN us
    ELSE LET node == Head(names)
             next == IF node \notin NodesOf(inv) THEN us
                     ELSE AddUsage(us, user, inv[NodeIndex(inv, node)].slots[1].type,
                                   node, n)
         IN  CpuAddNodes(next, inv, Tail(names), user, n)

\* the row unpacks into exactly four tokens and its count is a number
CpuRowOk(tokens) == Len(tokens) = 4 /\ tokens[1] \in DOMAIN IntOf

\* the body of the loop for a row that parses
CpuRowUsage(us, inv, tokens) ==
    CpuAddNodes(us, inv, parse_node_names(tokens[2]), tokens[3], IntOf[tokens[1]])

CpuStart ==
    /\ fn = "cpu_table" /\ pc = "start"
    /\ resources' = CpuResources(parse_node_names(node_str))
    /\ pc' = "filter"
    /\ UNCHANGED <<fn, err, node_str, show_bar, states, rows, res, res_total, usage,
                   idx, res_total_by_type, res_usage_by_type, type_list,
                   total_count, avail_count, aggregates, board>>

CpuFilter ==
    /\ fn = "cpu_table" /\ pc = "filter"
    /\ res' = HealthFilter(resources, states)
    /\ res_total' = HealthFilter(resources, states)
    /\ usage' = <<>>
    /\ idx' = 1
    /\ pc' = "usage"
    /\ UNCHANGED <<fn, err, node_str, show_bar, resources, states, rows,
                   res_total_by_type, res_usage_by_type, type_list,
                   total_count, avail_count, aggregates, board>>

CpuUsageRow ==
    /\ fn = "cpu_table" /\ pc = "usage"
    /\ IF idx > Len(rows)
       THEN /\ pc' = "subtract" /\ idx' = 1
            /\ UNCHANGED <<usage, err>>
       ELSE LET tokens == rows[idx]
            IN  IF Len(tokens) < 4
                THEN /\ idx' = idx + 1
                     /\ UNCHANGED <<pc, usage, err>>
                ELSE IF ~CpuRowOk(tokens)
                THEN /\ pc' = "raised" /\ err' = "ValueError"
                     /\ UNCHANGED <<usage, idx>>
                ELSE /\ usage' = CpuRowUsage(usage, res, tokens)
                     /\ idx' = idx + 1
                     /\ UNCHANGED <<pc, err>>
    /\ UNCHANGED <<fn, node_str, show_bar, resources, states, rows, res, res_total,
                   res_total_by_type, res_usage_by_type, type_list,
                   total_count, avail_count, aggregates, board>>

-----------------------------------------------------------------------------
(* The subtraction loops, one usage entry a step.                           *)

\* a bug to compare against: no floor at zero
SubtractUnclamped(count, n) == count - n

\* max(count - n, 0)
Subtract(count, n) == Max(count - n, 0)

\* res[node][slot]["count"] = value
SetCount(inv, node, k, value) ==
    [inv EXCEPT ![NodeIndex(inv, node)].slots[k].count = value]

CpuSubtract ==
    /\ fn = "cpu_table" /\ pc = "subtract"
    /\ IF idx > Len(usage)
       THEN /\ pc' = "group"
            /\ UNCHANGED <<res, idx>>
       ELSE LET e == usage[idx]
                count == res[NodeIndex(res, e.node)].slots[1].count
            IN  /\ res' = SetCount(res, e.node, 1, Subtract(count, e.n))
                /\ idx' = idx + 1
                /\ UNCHANGED pc
    /\ UNCHANGED <<fn, err, node_str, show_bar, resources, states, rows, res_total,
                   usage, res_total_by_type, res_usage_by_type, type_list,
                   total_count, avail_count, aggregates, board>>

-----------------------------------------------------------------------------
(* Grouping by type: type -> list of (node, count), the types in the order  *)
(* of their first slot.                                                     *)

TypeIndexes(bt, t) == {k \in 1..Len(bt) : bt[k].type = t}

\* by_type[spec["type"]].append({"node": node, "count": spec["count"]})
ByTypeAppend(bt, t, node, count) ==
    IF TypeIndexes(bt, t) # {}
    THEN LET k == CHOOSE j \in TypeIndexes(bt, t) : TRUE
         IN  [bt EXCEPT ![k].nodes = Append(@, [node |-> node, count |-> count])]
    ELSE Append(bt, [type |-> t, nodes |-> <<[node |-> node, count |-> count]>>])

RECURSIVE ByTypeSlots(_, _, _)
ByTypeSlots(bt, node, slots) ==
    IF slots = <<>> THEN bt
    ELSE ByTypeSlots(ByTypeAppend(bt, slots[1].type, node, slots[1].count),
                     node, Tail(slots))

RECURSIVE ByTypeFrom(_, _)
ByTypeFrom(bt, inv) ==
    IF inv = <<>> THEN bt
    ELSE ByTypeFrom(ByTypeSlots(bt, inv[1].node, inv[1].slots), Tail(inv))

\* for node, spec in inventory.items(): by_type[type].append(...)
ByType(inv) == ByTypeFrom(<<>>, inv)

TypeKeys(bt) == [k \in 1..Len(bt) |-> bt[k].type]

NodesOfType(bt, t) ==
    IF TypeIndexes(bt, t) = {} THEN <<>>
    ELSE bt[CHOOSE k \in TypeIndexes(bt, t) : TRUE].nodes

CpuGroup ==
    /\ fn = "cpu_table" /\ pc = "group"
    /\ res_total_by_type' = ByType(res_total)
    /\ res_usage_by_type' = ByType(res)
    /\ pc' = "done"
    /\ UNCHANGED <<fn, err, node_str, show_bar, resources, states, rows, res,
                   res_total, usage, idx, type_list,
                   total_count, avail_count, aggregates, board>>

-----------------------------------------------------------------------------
(* sorted(..., key=..., reverse=True): a stable sort, the elements of equal *)
(* key keeping their order.  It works on <<[item, key]>>.                   *)

\* a bug to compare against: ascending sort, then reversed
InsertByKeyUnstable(sorted, e) ==
    LET before == {k \in 1..Len(sorted) : sorted[k].key > e.key}
    IN  InsertAt(sorted, Cardinality(before), e)

\* e goes after every element whose key is at least e's
InsertByKey(sorted, e) ==
    LET before == {k \in 1..Len(sorted) : sorted[k].key >= e.key}
    IN  InsertAt(sorted, Cardinality(before), e)

RECURSIVE SortFrom(_, _)
SortFrom(sorted, s) ==
    IF s = <<>> THEN sorted
    ELSE SortFrom(InsertByKey(sorted, s[1]), Tail(s))

SortedReverse(s) == SortFrom(<<>>, s)

\* a bug to compare against: types without a rank sort as rank 0
TypeSortKeyUnrankedLast(t) == IF t \in DOMAIN CAPABILITY THEN CAPABILITY[t] ELSE 0

\* the sort key of a resource type
TypeSortKey(t) == CapabilityKey(t)

\* sorted(types, key=lambda x: CAPABILITY.get(x, 10.0), reverse=True)
SortTypes(types) ==
    LET keyed  == [k \in 1..Len(types) |-> [item |-> types[k], key |-> TypeSortKey(types[k])]]
        sorted == SortedReverse(keyed)
    IN  [k \in 1..Len(sorted) |-> sorted[k].item]

-----------------------------------------------------------------------------
(* The feeds of the GPU partition.                                          *)

Slot(t, c) == [type |-> t, count |-> c]

\* the answers of parse_all_gpus: no node, one node of one type (its slot
\* possibly of count 0), two nodes of which one holds two types
GpuInventories ==
    {<<>>}
    \cup {<<[node |-> "gnodeA", slots |-> <<Slot("a40", c)>>]>> : c \in 0..MaxSlot}
    \cup {<<[node |-> "gnodeA", slots |-> <<Slot("a40", c), Slot("p40", 1)>>],
            [node |-> "gnodeB", slots |-> <<Slot("p40", c)>>]>> : c \in 1..MaxSlot}

AllocationRecord(names, u, t, n) == [nodes |-> names, user |-> u, type |-> t, count |-> n]

\* rows of the allocation feed: a pending job (no node), jobs of one and of
\* two nodes, a job on a node no inventory has, a job whose type its node
\* does not hold
GpuRows ==
    { AllocationRecord(<<>>, "carol", "a40", 1),
      AllocationRecord(<<"gnodeA">>, "carol", "a40", 1),
      AllocationRecord(<<"gnodeA">>, "dave", "a40", 3),
      AllocationRecord(<<"gnodeA">>, "carol", "p40", 1),
      AllocationRecord(<<"gnodeA", "gnodeB">>, "carol", "p40", 1),
      AllocationRecord(<<"gnodeB">>, "dave", "p40", 2),
      AllocationRecord(<<"gnodeC">>, "bob", "p40", 2),
      AllocationRecord(<<"gnodeB">>, "dave", "v100", 1) }

RECURSIVE GpuAddNodes(_, _, _, _, _, _)
\* a node the inventory lacks is skipped, else the count is added
GpuAddNodes(us, inv, names, user, t, n) ==
    IF names = <<>> THEN us
    ELSE LET node == Head(names)
             next == IF node \notin NodesOf(inv) THEN us
                     ELSE AddUsage(us, user, t, node, n)
         IN  GpuAddNodes(next, inv, Tail(names), user, t, n)

RECURSIVE GpuUsageFrom(_, _, _)
GpuUsageFrom(us, inv, rws) ==
    IF rws = <<>> THEN us
    ELSE GpuUsageFrom(GpuAddNodes(us, inv, rws[1].nodes, rws[1].user,
                                  rws[1].type, rws[1].count),
                      inv, Tail(rws))

\* slurm_gpustat.gpu_usage(resources=inv) on the rows of the feed
gpu_usage(inv, rws) == GpuUsageFrom(<<>>, inv, rws)

-----------------------------------------------------------------------------
(* parse_usage_to_table.                                                    *)

GpuFilter ==
    /\ fn = "gpu_table" /\ pc = "start"
    /\ res' = HealthFilter(resources, states)
    /\ res_total' = HealthFilter(resources, states)
    /\ usage' = gpu_usage(HealthFilter(resources, states), rows)
    /\ idx' = 1
    /\ pc' = "subtract"
    /\ UNCHANGED <<fn, err, node_str, show_bar, resources, states, rows,
                   res_total_by_type, res_usage_by_type, type_list,
                   total_count, avail_count, aggregates, board>>

GpuSubtract ==
    /\ fn = "gpu_table" /\ pc = "subtract"
    /\ IF idx > Len(usage)
       THEN /\ pc' = "group"
            /\ UNCHANGED <<res, idx, err>>
       ELSE LET e == usage[idx]
                slots == res[NodeIndex(res, e.node)].slots
            IN  IF e.type \notin SlotTypes(slots)
                THEN /\ pc' = "raised" /\ err' = "ValueError"
                     /\ UNCHANGED <<res, idx>>
                ELSE LET resource_idx == SlotIndex(slots, e.type)
                         count == slots[resource_idx].count
                     IN  /\ res' = SetCount(res, e.node, resource_idx,
                                            Subtract(count, e.n))
                         /\ idx' = idx + 1
                         /\ UNCHANGED <<pc, err>>
    /\ UNCHANGED <<fn, node_str, show_bar, resources, states, rows, res_total,
                   usage, res_total_by_type, res_usage_by_type, type_list,
                   total_count, avail_count, aggregates, board>>

GpuGroup ==
    /\ fn = "gpu_table" /\ pc = "group"
    /\ res_total_by_type' = ByType(res_total)
    /\ res_usage_by_type' = ByType(res)
    /\ type_list' = SortTypes(TypeKeys(ByType(res_total)))
    /\ total_count' = 0
    /\ avail_count' = 0
    /\ idx' = 1
    /\ pc' = "rows"
    /\ UNCHANGED <<fn, err, node_str, show_bar, resources, states, rows, res,
                   res_total, usage, aggregates, board>>

\* get_resource_bar divides avail by total
BarRaises(avail, total) == total = 0

\* the rows of one type: a bar for each node, a bar for the type, the totals
GpuTypeRows ==
    /\ fn = "gpu_table" /\ pc = "rows"
    /\ idx <= Len(type_list)
    /\ LET gpu_type == type_list[idx]
           node_dicts == NodesOfType(res_total_by_type, gpu_type)
           avail_dicts == NodesOfType(res_usage_by_type, gpu_type)
       IN  IF show_bar /\ (\E k \in 1..Len(node_dicts) :
                              BarRaises(avail_dicts[k].count, node_dicts[k].count))
           THEN /\ pc' = "raised" /\ err' = "ZeroDivisionError"
                /\ UNCHANGED <<idx, total_count, avail_count>>
           ELSE /\ total_count' = total_count + SumCount(node_dicts)
                /\ avail_count' = avail_count + SumCount(avail_dicts)
                /\ idx' = idx + 1
                /\ UNCHANGED <<pc, err>>
    /\ UNCHANGED <<fn, node_str, show_bar, resources, states, rows, res, res_total,
                   usage, res_total_by_type, res_usage_by_type, type_list,
                   aggregates, board>>

\* the summary row: the bar of the grand totals, then max(num_col), num_col
\* being bound by the loop over the types only
GpuSummary ==
    /\ fn = "gpu_table" /\ pc = "rows"
    /\ idx > Len(type_list)
    /\ IF show_bar /\ BarRaises(avail_count, total_count)
       THEN pc' = "raised" /\ err' = "ZeroDivisionError"
       ELSE IF type_list = <<>>
       THEN pc' = "raised" /\ err' = "UnboundLocalError"
       ELSE pc' = "done" /\ UNCHANGED err
    /\ UNCHANGED <<fn, node_str, show_bar, resources, states, rows, res, res_total,
                   usage, idx, res_total_by_type, res_usage_by_type, type_list,
                   total_count, avail_count, aggregates, board>>

-----------------------------------------------------------------------------
(* parse_leaderboard.                                                       *)

\* a bug to compare against: the leaderboard reads the filtered inventory
LeaderboardInventoryFiltered(inv, st) == HealthFilter(inv, st)

\* the inventory parse_leaderboard hands to gpu_usage: parse_all_gpus() as is
LeaderboardInventory(inv, st) == inv

LbUsage ==
    /\ fn = "leaderboard" /\ pc = "start"
    /\ usage' = gpu_usage(LeaderboardInventory(resources, states), rows)
    /\ pc' = "aggregate"
    /\ UNCHANGED <<fn, err, node_str, show_bar, resources, states, rows, res,
                   res_total, idx, res_total_by_type, res_usage_by_type, type_list,
                   total_count, avail_count, aggregates, board>>

\* one usage entry folded into the aggregates: the user's dict is made at the
\* user's first entry, the type's sum at the type's first entry
AggregateAdd(ag, e) ==
    IF ag # <<>> /\ ag[Len(ag)].user = e.user
    THEN LET n_gpu == ag[Len(ag)].n_gpu
         IN  IF n_gpu[Len(n_gpu)].type = e.type
             THEN [ag EXCEPT ![Len(ag)].n_gpu[Len(n_gpu)].n = @ + e.n]
             ELSE [ag EXCEPT ![Len(ag)].n_gpu = Append(@, [type |-> e.type, n |-> e.n])]
    ELSE Append(ag, [user |-> e.user, n_gpu |-> <<[type |-> e.type, n |-> e.n]>>])

RECURSIVE AggregateFrom(_, _)
AggregateFrom(ag, us) ==
    IF us = <<>> THEN ag
    ELSE AggregateFrom(AggregateAdd(ag, us[1]), Tail(us))

\* aggregates[user]['n_gpu'] = {type: sum over the type's nodes}
Aggregate(us) == AggregateFrom(<<>>, us)

LbAggregate ==
    /\ fn = "leaderboard" /\ pc = "aggregate"
    /\ aggregates' = Aggregate(usage)
    /\ pc' = "rank"
    /\ UNCHANGED <<fn, err, node_str, show_bar, resources, states, rows, res,
                   res_total, usage, idx, res_total_by_type, res_usage_by_type,
                   type_list, total_count, avail_count, board>>

\* sorted(subdict['n_gpu'].items(), key=CAPABILITY.get(type, 10.0), reverse=True)
UserSummary(n_gpu) ==
    LET keyed  == [k \in 1..Len(n_gpu) |-> [item |-> n_gpu[k], key |-> TypeSortKey(n_gpu[k].type)]]
        sorted == SortedReverse(keyed)
    IN  [k \in 1..Len(sorted) |-> sorted[k].item]

\* sorted(aggregates.items(), key=sum of n_gpu, reverse=True), a line a user
Leaderboard(ag) ==
    LET keyed  == [k \in 1..Len(ag) |-> [item |-> ag[k], key |-> SumN(ag[k].n_gpu)]]
        sorted == SortedReverse(keyed)
    IN  [k \in 1..Len(sorted) |->
            [user    |-> sorted[k].item.user,
             total   |-> SumN(sorted[k].item.n_gpu),
             summary |-> UserSummary(sorted[k].item.n_gpu)]]

LbRank ==
    /\ fn = "leaderboard" /\ pc = "rank"
    /\ board' = Leaderboard(aggregates)
    /\ pc' = "done"
    /\ UNCHANGED <<fn, err, node_str, show_bar, resources, states, rows, res,
                   res_total, usage, idx, res_total_by_type, res_usage_by_type,
                   type_list, total_count, avail_count, aggregates>>

-----------------------------------------------------------------------------
(* The requests.                                                            *)

Blank ==
    /\ err = "" /\ res = <<>> /\ res_total = <<>> /\ usage = <<>> /\ idx = 1
    /\ res_total_by_type = <<>> /\ res_usage_by_type = <<>> /\ type_list = <<>>
    /\ total_count = 0 /\ avail_count = 0 /\ aggregates = <<>> /\ board = <<>>

InitCpu ==
    /\ fn = "cpu_table" /\ pc = "start"
    /\ node_str \in CpuSinfo
    /\ show_bar = TRUE
    /\ resources = <<>>
    /\ states \in HealthFeeds(Range(parse_node_names(node_str)))
    /\ rows \in SeqsUpTo(CpuRows, MaxRows)
    /\ Blank

InitGpu ==
    /\ fn \in {"gpu_table", "leaderboard"} /\ pc = "start"
    /\ node_str = ""
    /\ show_bar \in (IF fn = "gpu_table" THEN BOOLEAN ELSE {TRUE})
    /\ resources \in GpuInventories
    /\ states \in HealthFeeds(NodesOf(resources))
    /\ rows \in SeqsUpTo(GpuRows, MaxRows)
    /\ Blank

Init == InitCpu \/ InitGpu

Next ==
    \/ CpuStart \/ CpuFilter \/ CpuUsageRow \/ CpuSubtract \/ CpuGroup
    \/ GpuFilter \/ GpuSubtract \/ GpuGroup \/ GpuTypeRows \/ GpuSummary
    \/ LbUsage \/ LbAggregate \/ LbRank

Spec == Init /\ [][Next]_vars

-----------------------------------------------------------------------------
(* The two sorts on their own: the type list of parse_usage_to_table from   *)
(* the grouping step on, and parse_leaderboard from the aggregation on,     *)
(* started on every inventory of up to MaxTypes types and on usage mappings *)
(* of up to three users.                                                    *)

RankTypes == {"a40", "a100", "a30", "p40", "h100", "l40s"}

RankUsers == {"carol", "dave", "erin"}

\* an inventory of one node that holds the types ts in that order (none
\* when ts is empty)
RankInventory(ts) ==
    IF ts = <<>> THEN <<>>
    ELSE <<[node |-> "gnodeA", slots |-> [k \in 1..Len(ts) |-> Slot(ts[k], 1)]]>>

\* usage mappings: users in any order with one allocation each, and one
\* user holding the types ts in that order
RankUsages ==
    {[k \in 1..Len(us) |-> [user |-> us[k], type |-> "a40", node |-> "gnodeA", n |-> n[us[k]]]] :
        us \in DistinctSeqs(RankUsers, 3), n \in [RankUsers -> 0..MaxAlloc]}
    \cup
    {[k \in 1..Len(ts) |-> [user |-> "carol", type |-> ts[k], node |-> "gnodeA", n |-> k]] :
        ts \in DistinctSeqs(RankTypes, MaxTypes)}

InitRankTypes ==
    /\ fn = "gpu_table" /\ pc = "group"
    /\ node_str = "" /\ show_bar = TRUE /\ states = <<>> /\ rows = <<>>
    /\ \E ts \in DistinctSeqs(RankTypes, MaxTypes) :
          /\ resources = RankInventory(ts)
          /\ res = RankInventory(ts)
          /\ res_total = RankInventory(ts)
    /\ err = "" /\ usage = <<>> /\ idx = 1
    /\ res_total_by_type = <<>> /\ res_usage_by_type = <<>> /\ type_list = <<>>
    /\ total_count = 0 /\ avail_count = 0 /\ aggregates = <<>> /\ board = <<>>

InitRankUsers ==
    /\ fn = "leaderboard" /\ pc = "aggregate"
    /\ node_str = "" /\ show_bar = TRUE /\ states = <<>> /\ rows = <<>>
    /\ resources = <<>>
    /\ usage \in RankUsages
    /\ err = "" /\ res = <<>> /\ res_total = <<>> /\ idx = 1
    /\ res_total_by_type = <<>> /\ res_usage_by_type = <<>> /\ type_list = <<>>
    /\ total_count = 0 /\ avail_count = 0 /\ aggregates = <<>> /\ board = <<>>

InitRank == InitRankTypes \/ InitRankUsers

NextRank == GpuGroup \/ LbAggregate \/ LbRank

SpecRank == InitRank /\ [][NextRank]_vars

-----------------------------------------------------------------------------
(* What the claims read.                                                    *)

\* the availability computation has filtered the inventory
Filtered == fn \in {"cpu_table", "gpu_table"} /\ pc \notin {"start", "filter"}

\* the subtraction loop has run to its end
Subtracted == fn \in {"cpu_table", "gpu_table"} /\ pc \in {"group", "rows", "done"}

\* the (node, type) slots of an inventory
SlotsOf(inv) ==
    UNION {{<<inv[k].node, inv[k].slots[j].type>> : j \in 1..Len(inv[k].slots)} :
              k \in 1..Len(inv)}

\* the users of a usage mapping
UsersOf(us) == {us[k].user : k \in 1..Len(us)}

\* the sum, over all users, of the usage on one slot
SlotUsage(us, node, t) ==
    SumN(SelectSeq2(us, {k \in 1..Len(us) : us[k].node = node /\ us[k].type = t}))

-----------------------------------------------------------------------------
\* C1: in parse_cpu_usage_to_table and parse_usage_to_table, from the filter
\* on and at every step of the subtraction loop, every (node, type) slot of
\* the filtered inventory holds 0 <= remaining <= total, total being the
\* count of the res_total copy.
C1_RemainingWithinTotal ==
    Filtered =>
        /\ SlotsOf(res) = SlotsOf(res_total)
        /\ \A nt \in SlotsOf(res) :
              /\ 0 <= CountOf(res, nt[1], nt[2])
              /\ CountOf(res, nt[1], nt[2]) <= CountOf(res_total, nt[1], nt[2])

\* a step of the GPU loop has just subtracted more than the slot held
C1_Witness ==
    /\ fn = "gpu_table" /\ pc = "subtract" /\ idx > 1
    /\ usage[idx - 1].n > CountOf(res_total, usage[idx - 1].node, usage[idx - 1].type)
    /\ CountOf(res_total, usage[idx - 1].node, usage[idx - 1].type) > 0
    /\ CountOf(res, usage[idx - 1].node, usage[idx - 1].type) = 0

\* C9: once the subtraction loop has ended, the remaining count of every
\* slot is max(total - S, 0), S the sum over all users of their usage on the
\* slot, whatever the order of the users in the usage mapping.
C9_RemainingIsClampedDifference ==
    Subtracted =>
        \A nt \in SlotsOf(res_total) :
            CountOf(res, nt[1], nt[2])
                = Max(CountOf(res_total, nt[1], nt[2]) - SlotUsage(usage, nt[1], nt[2]), 0)

\* two users have used the same slot, the first more than it holds
C9_Witness ==
    /\ Subtracted
    /\ \E a, b \in 1..Len(usage) :
          /\ a < b
          /\ usage[a].user # usage[b].user
          /\ usage[a].node = usage[b].node /\ usage[a].type = usage[b].type
          /\ usage[a].n > CountOf(res_total, usage[a].node, usage[a].type)
          /\ CountOf(res_total, usage[a].node, usage[a].type) > 0
          /\ usage[b].n > 0

-----------------------------------------------------------------------------
(* cpu_usage against the rows it was given.                                 *)

\* cpu_usage has read the rows before row k
CpuRowsRead ==
    IF fn # "cpu_table" \/ pc \in {"start", "filter", "raised"} THEN 0
    ELSE IF pc = "usage" THEN idx - 1
    ELSE Len(rows)

RECURSIVE RowSum(_, _, _)
\* the sum of the counts of the rows of user u that carry a node list (four
\* tokens or more) naming node
RowSum(rws, u, node) ==
    IF rws = <<>> THEN 0
    ELSE (IF /\ Len(rws[1]) >= 4
             /\ rws[1][1] \in DOMAIN IntOf
             /\ rws[1][3] = u
             /\ node \in Range(parse_node_names(rws[1][2]))
          THEN IntOf[rws[1][1]] ELSE 0)
         + RowSum(Tail(rws), u, node)

CpuUsers == {"alice", "bob"}

\* C10: after every row cpu_usage has read, and so in what it returns,
\* usage[user][type][node] is the sum of the full counts of the rows of that
\* user that carry a node list naming the node, for every node of the
\* inventory; a multi-node row counts undivided on each of its nodes and a
\* later row adds to an earlier one.
C10_UsageIsSumOfRows ==
    (fn = "cpu_table" /\ pc \in {"usage", "subtract", "group", "done"}) =>
        \A u \in CpuUsers : \A node \in NodesOf(res_total) :
            UsageOf(usage, u, CpuType(node), node)
                = RowSum(SubSeq(rows, 1, CpuRowsRead), u, node)

\* cpu_usage has returned after a row of two nodes and a second row of the
\* same user on one of them
C10_Witness ==
    /\ fn = "cpu_table" /\ pc = "subtract"
    /\ rows = << <<"2", "cnode0[1-2]", "alice", "103">>,
                 <<"1", "cnode01", "alice", "101">> >>
    /\ UsageOf(usage, "alice", "cnode0xx", "cnode01") = 3
    /\ UsageOf(usage, "alice", "cnode0xx", "cnode02") = 2

\* the rows that have the expected shape: four tokens, a numeric count
WellFormed(rws) == SelectSeq2(rws, {k \in 1..Len(rws) : CpuRowOk(rws[k])})

\* C7: a malformed row (a wrong number of tokens, more than four included,
\* or a count that is no number) never aborts cpu_usage: it is skipped, and
\* the well-formed rows before and after it are aggregated.
C7_MalformedRowSkipped ==
    fn = "cpu_table" =>
        /\ pc # "raised"
        /\ pc \in {"subtract", "group", "done"} =>
              \A u \in CpuUsers : \A node \in NodesOf(res_total) :
                  UsageOf(usage, u, CpuType(node), node) = RowSum(WellFormed(rows), u, node)

-----------------------------------------------------------------------------
\* C8: when the filtered inventory is empty, parse_usage_to_table completes
\* and returns the empty snapshot with grand totals 0 available of 0; and a
\* slot of total count 0 does not make it fail (no division by the zero
\* total, no read of the unbound num_col).
C8_EmptyInventoryCompletes ==
    (fn = "gpu_table" /\ pc \in {"done", "raised"}) =>
        /\ res_total = <<>> =>
              pc = "done" /\ type_list = <<>> /\ total_count = 0 /\ avail_count = 0
        /\ err \notin {"ZeroDivisionError", "UnboundLocalError"}

-----------------------------------------------------------------------------
(* The health filter against the feeds.                                     *)

\* tokens of a node that can take jobs
KnownGood == {"idle", "mix", "alloc"}

\* the inventory the handler filters, in both handlers
RawNodes == NodesOf(resources)

\* the slots of a node in an inventory that holds the node
SlotsAt(inv, node) == inv[CHOOSE k \in 1..Len(inv) : inv[k].node = node].slots

\* C6 as stated: the filter keeps a node only when the health feed maps it
\* to a known-good state; a node missing from the feed and a node of an
\* unrecognized token are both excluded.
C6_OnlyKnownGoodKept ==
    Filtered =>
        \A node \in NodesOf(res_total) :
            node \in DOMAIN states /\ states[node] \in KnownGood

\* C6, amended: the filter keeps exactly the nodes whose token is outside
\* the inaccessible set: a node missing from the health feed counts as
\* "down" and is excluded, a node of any other token, an unrecognized one
\* included, is kept.
C6_KeptUnlessInaccessible ==
    Filtered =>
        /\ NodesOf(res_total)
              = {node \in RawNodes : node \in DOMAIN states /\ states[node] \notin INACCESSIBLE}
        /\ NodesOf(res) = NodesOf(res_total)

\* the filter has just ended without an error: one node is missing from the
\* health feed and excluded, another has an unrecognized token and is kept
C6_Witness ==
    /\ Filtered /\ pc \in {"usage", "subtract"} /\ idx = 1 /\ err = ""
    /\ \E a, b \in RawNodes :
          /\ a \notin DOMAIN states /\ a \notin NodesOf(res)
          /\ b \in DOMAIN states /\ states[b] \notin KnownGood \cup INACCESSIBLE
          /\ b \in NodesOf(res)

\* C3 as stated: a node of the raw inventory whose health state is
\* inaccessible is absent from the availability inventory and present in
\* the total view with its full slot counts.
C3_ExcludedNodeInTotal ==
    Filtered =>
        \A node \in RawNodes :
            StateOf(states, node) \in INACCESSIBLE =>
                /\ node \notin NodesOf(res)
                /\ node \in NodesOf(res_total)
                /\ SlotsAt(res_total, node) = SlotsAt(resources, node)

\* the by-type view lists the node
InByType(bt, node) ==
    \E k \in 1..Len(bt) : \E j \in 1..Len(bt[k].nodes) : bt[k].nodes[j].node = node

\* C3, amended: the total view is a copy of the filtered inventory: a node
\* the health filter excludes is absent from the availability output and
\* from res_total and res_total_by_type alike, and every node the filter
\* keeps is in res_total with its original slot counts, whatever is
\* subtracted from res.
C3_TotalIsFilteredCopy ==
    Filtered =>
        \A node \in RawNodes :
            IF StateOf(states, node) \in INACCESSIBLE
            THEN /\ node \notin NodesOf(res)
                 /\ node \notin NodesOf(res_total)
                 /\ ~InByType(res_total_by_type, node)
                 /\ ~InByType(res_usage_by_type, node)
            ELSE /\ node \in NodesOf(res)
                 /\ node \in NodesOf(res_total)
                 /\ SlotsAt(res_total, node) = SlotsAt(resources, node)
                 /\ pc \in {"rows", "done"} =>
                       /\ InByType(res_total_by_type, node)
                       /\ \A t \in SlotTypes(SlotsAt(resources, node)) :
                             \E j \in 1..Len(NodesOfType(res_total_by_type, t)) :
                                 NodesOfType(res_total_by_type, t)[j]
                                     = [node |-> node,
                                        count |-> CountOf(resources, node, t)]

\* the views are built, one node is excluded by its health and another is
\* kept and partly used
C3_Witness ==
    /\ Filtered /\ pc \in {"rows", "done"}
    /\ \E a, b \in RawNodes :
          /\ StateOf(states, a) \in INACCESSIBLE
          /\ b \in NodesOf(res)
          /\ \E t \in SlotTypes(SlotsAt(resources, b)) :
                CountOf(res, b, t) < CountOf(res_total, b, t)

-----------------------------------------------------------------------------
(* The leaderboard against the allocation feed.                             *)

GpuUsers == {"carol", "dave", "bob"}

GpuTypes == {"a40", "p40", "v100"}

\* the per-type figure of a user on the leaderboard, 0 when the user's line
\* or the type is missing
BoardFigure(b, u, t) ==
    LET lines == {k \in 1..Len(b) : b[k].user = u}
    IN  IF lines = {} THEN 0
        ELSE LET summary == b[CHOOSE k \in lines : TRUE].summary
             IN  SumN(SelectSeq2(summary, {j \in 1..Len(summary) : summary[j].type = t}))

\* the total of a user on the leaderboard, 0 when the user has no line
BoardTotal(b, u) ==
    LET lines == {k \in 1..Len(b) : b[k].user = u}
    IN  IF lines = {} THEN 0 ELSE b[CHOOSE k \in lines : TRUE].total

RECURSIVE AllocatedOn(_, _, _, _)
\* the count of the rows of user u and type t, once for each node of the row
\* that is in the set nodes
AllocatedOn(rws, u, t, nodes) ==
    IF rws = <<>> THEN 0
    ELSE (IF rws[1].user = u /\ rws[1].type = t
          THEN rws[1].count * Cardinality(Range(rws[1].nodes) \cap nodes)
          ELSE 0)
         + AllocatedOn(Tail(rws), u, t, nodes)

\* every node a row of the feed names
RowNodes == UNION {Range(rows[k].nodes) : k \in 1..Len(rows)}

RECURSIVE SumOver(_, _)
SumOver(f, S) ==
    IF S = {} THEN 0
    ELSE LET x == CHOOSE x \in S : TRUE IN f[x] + SumOver(f, S \ {x})

\* C5 as stated: a row naming a node absent from the inventory is left out
\* of the availability computation and still counted on the leaderboard:
\* the per-type and the total figures of a user hold the count of every row
\* of the user that names a node, in the inventory or not.
C5_UnknownNodeOnLeaderboard ==
    /\ (fn = "gpu_table" /\ Filtered) =>
          \A k \in 1..Len(usage) : usage[k].node \in NodesOf(res_total)
    /\ (fn = "leaderboard" /\ pc = "done") =>
          \A u \in GpuUsers :
              /\ \A t \in GpuTypes :
                    BoardFigure(board, u, t) = AllocatedOn(rows, u, t, RowNodes)
              /\ BoardTotal(board, u)
                    = SumOver([t \in GpuTypes |-> AllocatedOn(rows, u, t, RowNodes)],
                              GpuTypes)

\* C5, amended: the availability computation counts a row only on the nodes
\* of the health-filtered inventory and the leaderboard only on the nodes of
\* the unfiltered inventory of parse_all_gpus; so usage on a node that the
\* health filter excludes is left out of availability and still counted on
\* the leaderboard, and a row on a node that no inventory holds (bob's 2 p40
\* on nodeC) is counted by neither, without an error.
C5_LeaderboardCountsRawInventory ==
    /\ (fn = "gpu_table" /\ Filtered) =>
          /\ \A k \in 1..Len(usage) : usage[k].node \in NodesOf(res_total)
          /\ \A u \in GpuUsers : \A t \in GpuTypes :
                SumN(SelectSeq2(usage, {k \in 1..Len(usage) :
                                          usage[k].user = u /\ usage[k].type = t}))
                    = AllocatedOn(rows, u, t, NodesOf(res_total))
    /\ (fn = "leaderboard" /\ pc = "done") =>
          \A u \in GpuUsers :
              /\ \A t \in GpuTypes :
                    BoardFigure(board, u, t) = AllocatedOn(rows, u, t, RawNodes)
              /\ BoardTotal(board, u)
                    = SumOver([t \in GpuTypes |-> AllocatedOn(rows, u, t, RawNodes)],
                              GpuTypes)

\* the leaderboard is done: dave's 2 p40 on gnodeB, which is down, are on it
\* and bob's 2 p40 on gnodeC, which no inventory holds, are not
C5_Witness ==
    /\ fn = "leaderboard" /\ pc = "done"
    /\ "gnodeB" \in RawNodes /\ StateOf(states, "gnodeB") \in INACCESSIBLE
    /\ rows = <<AllocationRecord(<<"gnodeB">>, "dave", "p40", 2),
                AllocationRecord(<<"gnodeC">>, "bob", "p40", 2)>>
    /\ BoardFigure(board, "dave", "p40") = 2
    /\ BoardFigure(board, "bob", "p40") = 0
    /\ err = ""

-----------------------------------------------------------------------------
(* The two orderings.                                                       *)

Ranked(t) == t \in DOMAIN CAPABILITY

\* the place of x in a sequence without repeats
Place(s, x) == CHOOSE k \in 1..Len(s) : s[k] = x

\* out holds the elements of inp, each once
Rearranged(inp, out) == Len(out) = Len(inp) /\ Range(out) = Range(inp)

\* among the ranked types, a higher rank comes first
RankDescending(out) ==
    \A a, b \in 1..Len(out) :
        (a < b /\ Ranked(out[a]) /\ Ranked(out[b])) =>
            CAPABILITY[out[a]] >= CAPABILITY[out[b]]

\* the unranked types stand in out as they stand in inp
UnrankedKeepOrder(inp, out) ==
    \A x, y \in Range(inp) :
        (~Ranked(x) /\ ~Ranked(y) /\ Place(inp, x) < Place(inp, y)) =>
            Place(out, x) < Place(out, y)

\* every unranked type comes after all the ranked ones
UnrankedLast(inp, out) ==
    /\ Rearranged(inp, out) /\ RankDescending(out) /\ UnrankedKeepOrder(inp, out)
    /\ \A a, b \in 1..Len(out) : (a < b /\ ~Ranked(out[a])) => ~Ranked(out[b])

\* every unranked type comes before all the ranked ones
UnrankedFirst(inp, out) ==
    /\ Rearranged(inp, out) /\ RankDescending(out) /\ UnrankedKeepOrder(inp, out)
    /\ \A a, b \in 1..Len(out) : (a < b /\ ~Ranked(out[b])) => ~Ranked(out[a])

TypesOf(n_gpu) == [k \in 1..Len(n_gpu) |-> n_gpu[k].type]

\* the line of a user of the aggregates on the leaderboard
LineOf(b, u) == b[CHOOSE k \in 1..Len(b) : b[k].user = u]

\* C2 as stated: the types are in capability rank descending, the types
\* without an entry in CAPABILITY after all those with one and in their
\* input order, in the type list of parse_usage_to_table and in each user's
\* breakdown of parse_leaderboard.
C2_UnrankedTypesLast ==
    /\ (fn = "gpu_table" /\ pc = "rows") =>
          UnrankedLast(TypeKeys(res_total_by_type), type_list)
    /\ (fn = "leaderboard" /\ pc = "done") =>
          \A k \in 1..Len(aggregates) :
              UnrankedLast(TypesOf(aggregates[k].n_gpu),
                           TypesOf(LineOf(board, aggregates[k].user).summary))

\* C2, amended: the types are in capability rank descending, the types
\* without an entry in CAPABILITY (which sort at the default rank 10.0,
\* above every listed rank) before all those with one and in their input
\* order, in the type list of parse_usage_to_table and in each user's
\* breakdown of parse_leaderboard.
C2_UnrankedTypesFirst ==
    /\ (fn = "gpu_table" /\ pc = "rows") =>
          UnrankedFirst(TypeKeys(res_total_by_type), type_list)
    /\ (fn = "leaderboard" /\ pc = "done") =>
          \A k \in 1..Len(aggregates) :
              UnrankedFirst(TypesOf(aggregates[k].n_gpu),
                            TypesOf(LineOf(board, aggregates[k].user).summary))

\* two unranked types among ranked ones have been sorted to the front
C2_Witness ==
    /\ fn = "gpu_table" /\ pc = "rows"
    /\ TypeKeys(res_total_by_type) = <<"p40", "l40s", "a40", "h100">>
    /\ type_list = <<"l40s", "h100", "a40", "p40">>

\* where the user first stands in the usage mapping
FirstEntry(us, u) ==
    CHOOSE k \in 1..Len(us) : us[k].user = u /\ \A j \in 1..(k - 1) : us[j].user # u

\* the sum of n_gpu of a user over all types and nodes
Allocation(us, u) == SumN(SelectSeq2(us, {k \in 1..Len(us) : us[k].user = u}))

\* C4: the leaderboard lists every user of the usage mapping once, with the
\* sum of n_gpu over all types and nodes, in descending order of that sum,
\* and users of equal sums in their order in the usage mapping.
C4_LeaderboardOrder ==
    (fn = "leaderboard" /\ pc = "done") =>
        /\ Len(board) = Cardinality(UsersOf(usage))
        /\ {board[k].user : k \in 1..Len(board)} = UsersOf(usage)
        /\ \A k \in 1..Len(board) : board[k].total = Allocation(usage, board[k].user)
        /\ \A a, b \in 1..Len(board) :
              a < b =>
                 /\ board[a].total >= board[b].total
                 /\ board[a].total = board[b].total =>
                       FirstEntry(usage, board[a].user) < FirstEntry(usage, board[b].user)

\* carol and dave, equal and in that order in the input, follow erin
C4_Witness ==
    /\ fn = "leaderboard" /\ pc = "done"
    /\ [k \in 1..Len(usage) |-> usage[k].user] = <<"carol", "dave", "erin">>
    /\ [k \in 1..Len(board) |-> board[k].user] = <<"erin", "carol", "dave">>
    /\ board[2].total = board[3].total /\ board[2].total > 0

=============================================================================
